---- MODULE Spec2Model ----
(***************************************************************************)
(* A model of RotateWriter (package log): a size-bounded rotating log      *)
(* writer with retention by count and by age.                              *)
(*                                                                         *)
(* File names are sequences of one-character strings, so that the name     *)
(* built by backupName and the name parsed by timeFromName are compared    *)
(* character by character.  Instants are hours since 0001-01-01 00:00 UTC. *)
(* Every operation of the writer is a set-valued operator: the set of      *)
(* outcomes it can have, one per result of the system calls it makes.      *)
(***************************************************************************)
EXTENDS Integers, Sequences, FiniteSets, TLC

(***************************************************************************)
(* Bounds of the model.                                                    *)
(***************************************************************************)
\* bytes in one configured megabyte (1024 * 1024 in the program, scaled)
BytesPerMB == 2
\* number of concurrent callers of Write and Close
NumProcs == 2
\* number of calls (Write or Close) in one behaviour
MaxOps == 2
\* number of times the clock advances
MaxTicks == 1
\* hours the clock advances at a time
TickHours == 12

HoursPerDay == 24
\* existence checks of backupName that may fail in one call
MaxProbeErrs == 1

(***************************************************************************)
(* Strings.                                                                *)
(***************************************************************************)
Digits == <<"0", "1", "2", "3", "4", "5", "6", "7", "8", "9">>

IsDigit(c) == \E i \in 1..10 : Digits[i] = c

DigitVal(c) == (CHOOSE i \in 1..10 : Digits[i] = c) - 1

\* strings.HasPrefix
HasPrefix(s, p) == Len(s) >= Len(p) /\ SubSeq(s, 1, Len(p)) = p

\* strings.HasSuffix
HasSuffix(s, e) == Len(s) >= Len(e) /\ SubSeq(s, Len(s) - Len(e) + 1, Len(s)) = e

\* filepath.Ext: the suffix beginning at the final dot, empty without a dot
Ext(s) ==
    LET dots == {i \in 1..Len(s) : s[i] = "."}
    IN  IF dots = {} THEN <<>>
        ELSE SubSeq(s, CHOOSE i \in dots : \A j \in dots : j <= i, Len(s))

\* strings.Split(s, "-"): the parts between the dashes, empty parts kept
RECURSIVE SplitFrom(_, _, _)
SplitFrom(s, i, cur) ==
    IF i > Len(s) THEN <<cur>>
    ELSE IF s[i] = "-" THEN <<cur>> \o SplitFrom(s, i + 1, <<>>)
    ELSE SplitFrom(s, i + 1, Append(cur, s[i]))

Split(s) == SplitFrom(s, 1, <<>>)

\* strings.Join(parts, "-")
RECURSIVE Join(_)
Join(parts) ==
    IF Len(parts) = 0 THEN <<>>
    ELSE IF Len(parts) = 1 THEN parts[1]
    ELSE parts[1] \o <<"-">> \o Join(Tail(parts))

\* fmt's %d of a non-negative integer
RECURSIVE Itoa(_)
Itoa(n) == IF n < 10 THEN <<Digits[n + 1]>> ELSE Itoa(n \div 10) \o <<Digits[(n % 10) + 1]>>

\* a number zero-padded to two and to four digits, as Format writes "01", "02", "2006"
Pad2(n) == <<Digits[((n \div 10) % 10) + 1], Digits[(n % 10) + 1]>>

Pad4(n) == Pad2(n \div 100) \o Pad2(n % 100)

\* the value of a string of digits, -1 for anything else
RECURSIVE AtoiFrom(_, _, _)
AtoiFrom(s, i, acc) ==
    IF i > Len(s) THEN acc
    ELSE IF ~IsDigit(s[i]) THEN -1
    ELSE AtoiFrom(s, i + 1, acc * 10 + DigitVal(s[i]))

Atoi(s) == IF Len(s) = 0 THEN -1 ELSE AtoiFrom(s, 1, 0)

(***************************************************************************)
(* The calendar: days are counted from 0001-01-01 (day 0).                 *)
(***************************************************************************)
IsLeap(y) == (y % 4 = 0 /\ y % 100 # 0) \/ y % 400 = 0

DaysIn(y, m) ==
    IF m = 2 THEN (IF IsLeap(y) THEN 29 ELSE 28)
    ELSE IF m \in {4, 6, 9, 11} THEN 30 ELSE 31

DaysBeforeYear(y) == 365 * (y - 1) + ((y - 1) \div 4) - ((y - 1) \div 100) + ((y - 1) \div 400)

RECURSIVE DaysBeforeMonth(_, _)
DaysBeforeMonth(y, m) == IF m = 1 THEN 0 ELSE DaysBeforeMonth(y, m - 1) + DaysIn(y, m - 1)

DayNumber(y, m, d) == DaysBeforeYear(y) + DaysBeforeMonth(y, m) + (d - 1)

YearOfDay(n) == CHOOSE y \in 2023..2025 : DaysBeforeYear(y) <= n /\ n < DaysBeforeYear(y + 1)

MonthOfDay(n) ==
    LET y == YearOfDay(n)
        r == n - DaysBeforeYear(y)
    IN  CHOOSE m \in 1..12 : DaysBeforeMonth(y, m) <= r /\ r < DaysBeforeMonth(y, m) + DaysIn(y, m)

\* t.Format("2006-01-02") of an instant whose local calendar day is n
FormatDate(n) ==
    LET y == YearOfDay(n)
        m == MonthOfDay(n)
        d == n - DaysBeforeYear(y) - DaysBeforeMonth(y, m) + 1
    IN  Pad4(y) \o <<"-">> \o Pad2(m) \o <<"-">> \o Pad2(d)

\* time.Parse("2006-01-02", s): four digits, a dash, two digits, a dash, two
\* digits and nothing else, the month and the day in range; the result is the
\* instant 00:00 UTC of that day.
ParseOK(s) ==
    /\ Len(s) = 10
    /\ s[5] = "-" /\ s[8] = "-"
    /\ \A i \in {1, 2, 3, 4, 6, 7, 9, 10} : IsDigit(s[i])
    /\ LET y == Atoi(SubSeq(s, 1, 4))
           m == Atoi(SubSeq(s, 6, 7))
           d == Atoi(SubSeq(s, 9, 10))
       IN  m \in 1..12 /\ d >= 1 /\ d <= DaysIn(y, m)

ParseDate(s) ==
    DayNumber(Atoi(SubSeq(s, 1, 4)), Atoi(SubSeq(s, 6, 7)), Atoi(SubSeq(s, 9, 10))) * HoursPerDay

(***************************************************************************)
(* The state.  The configuration is set by NewRotateWriter and never       *)
(* changes; file and size are the writer's runtime state; mu is its mutex. *)
(* disk, dirExists, now and zone are the file system, the clock and the    *)
(* process's time zone (hours east of UTC), which the writer reads.        *)
(***************************************************************************)
VARIABLES
    filename, maxSize, maxAge, maxBackups, compress,  \* configuration
    file, size, mu,                                   \* the writer
    disk, dirExists, now, zone, faults,               \* the environment
    callers, budget, pc, buf, ret,                    \* each caller's call
    tasks,                                            \* goroutines running
    trace, pre, written, rotated, prevErr, prevOp, nops, ticks  \* history

config == <<filename, maxSize, maxAge, maxBackups, compress, zone, faults, callers,
            budget>>
vars == <<filename, maxSize, maxAge, maxBackups, compress, file, size, mu,
          disk, dirExists, now, zone, faults, callers, budget, pc, buf, ret,
          tasks, trace, pre, written, rotated, prevErr, prevOp, nops, ticks>>

Procs == 1..NumProcs

\* w.file = nil
Nil == 0

NoErr == "nil"

(***************************************************************************)
(* File names.                                                             *)
(***************************************************************************)
\* the name without its extension: filename[:len(filename)-len(ext)]
Stem(name) == SubSeq(name, 1, Len(name) - Len(Ext(name)))

prefixAndExt == [prefix |-> Stem(filename) \o <<"-">>, ext |-> Ext(filename)]

\* fmt.Sprintf("%s-%s-%d%s", prefix, timestamp, index, ext)
BackupCandidate(name, day, index) ==
    Stem(name) \o <<"-">> \o FormatDate(day) \o <<"-">> \o Itoa(index) \o Ext(name)

\* the calendar day of an instant in the process's time zone
LocalDay(t) == (t + zone) \div HoursPerDay

\* timeFromName: err is "nil" and t the parsed instant, or err says why not.
\* The slice filename[len(prefix):len(filename)-len(ext)] panics when the
\* prefix and the extension overlap in the name.
timeFromName(fname, prefix, ext) ==
    IF ~HasPrefix(fname, prefix) THEN [err |-> "mismatched prefix", t |-> 0]
    ELSE IF ~HasSuffix(fname, ext) THEN [err |-> "mismatched extension", t |-> 0]
    ELSE IF Len(prefix) > Len(fname) - Len(ext) THEN [err |-> "panic", t |-> 0]
    ELSE LET ts == SubSeq(fname, Len(prefix) + 1, Len(fname) - Len(ext))
             parts == Split(ts)
         IN  IF Len(parts) < 4 THEN [err |-> "invalid timestamp format", t |-> 0]
             ELSE LET dateStr == Join(SubSeq(parts, 2, 4))
                  IN  IF ParseOK(dateStr) THEN [err |-> NoErr, t |-> ParseDate(dateStr)]
                      ELSE [err |-> "parse", t |-> 0]

(***************************************************************************)
(* The writer's state and the file system as one value, and the outcomes   *)
(* of an operation: the value afterwards and the error returned.           *)
(* disk maps each name in the writer's directory to [ino, data]; an open   *)
(* handle is the inode it was opened on.  trace lists the system calls of  *)
(* the call in progress (an os.Stat only when it fails on a file that      *)
(* exists).  A system call fails only if its name is in faults.            *)
(***************************************************************************)
World == [file |-> file, size |-> size, disk |-> disk, dirExists |-> dirExists,
          trace |-> trace]

\* a system call: what, on which name, and whether it succeeded
Event(op, name, ok) == [op |-> op, name |-> name, ok |-> ok]

Ev(w, op, name, ok) == [w EXCEPT !.trace = Append(@, Event(op, name, ok))]

Ok(w) == [w |-> w, err |-> NoErr]

Fail(w, e) == [w |-> w, err |-> e]

MayFail(site) == site \in faults

Inos(w) == {w.disk[n].ino : n \in DOMAIN w.disk} \cup {w.file}

FreshIno(w) == 1 + (CHOOSE i \in Inos(w) : \A j \in Inos(w) : j <= i)

RemoveName(d, n) == [m \in DOMAIN d \ {n} |-> d[m]]

RenameName(d, from, to) ==
    [m \in (DOMAIN d \ {from}) \cup {to} |-> IF m = to THEN d[from] ELSE d[m]]

\* close returning a Close error before it sets w.file to nil
closeKeepsFailedHandle(w) ==
    IF w.file = Nil THEN {Ok(w)}
    ELSE {Ok([Ev(w, "close", filename, TRUE) EXCEPT !.file = Nil])}
         \cup (IF MayFail("close")
               THEN {Fail(Ev(w, "close", filename, FALSE), "close")}
               ELSE {})

\* close without the test for a nil handle: Close on a nil *os.File is an error
closeUnchecked(w) ==
    IF w.file = Nil THEN {Fail(w, "close")}
    ELSE {Ok([Ev(w, "close", filename, TRUE) EXCEPT !.file = Nil])}
         \cup (IF MayFail("close")
               THEN {Fail([Ev(w, "close", filename, FALSE) EXCEPT !.file = Nil], "close")}
               ELSE {})

\* close: w.file is nil afterwards whether or not Close fails
close(w) ==
    IF w.file = Nil THEN {Ok(w)}
    ELSE {Ok([Ev(w, "close", filename, TRUE) EXCEPT !.file = Nil])}
         \cup (IF MayFail("close")
               THEN {Fail([Ev(w, "close", filename, FALSE) EXCEPT !.file = Nil], "close")}
               ELSE {})

(***************************************************************************)
(* The retention sweep.                                                    *)
(***************************************************************************)
\* logFiles keeping the entries whose name does not parse, with the zero time
logFilesIgnoringError(w) ==
    LET pe == prefixAndExt
    IN  {[name |-> f, timestamp |-> timeFromName(f, pe.prefix, pe.ext).t] :
            f \in DOMAIN w.disk}

\* oldLogFiles before sorting: the entries whose name timeFromName accepts
logFiles(w) ==
    LET pe == prefixAndExt
    IN  {[name |-> f, timestamp |-> timeFromName(f, pe.prefix, pe.ext).t] :
            f \in {g \in DOMAIN w.disk : timeFromName(g, pe.prefix, pe.ext).err = NoErr}}

\* sort.Sort(byFormatTime(logFiles)): newest first, ties in any order
byFormatTime(S) ==
    {s \in [1..Cardinality(S) -> S] :
        /\ \A i, j \in 1..Cardinality(S) : i # j => s[i] # s[j]
        /\ \A i \in 1..(Cardinality(S) - 1) : s[i].timestamp >= s[i + 1].timestamp}

\* the files mill marks: those past the first maxBackups, then of the rest
\* those older than maxAge days
Deletes(files) ==
    LET cut == maxBackups > 0 /\ maxBackups < Len(files)
        byCount == IF cut THEN SubSeq(files, maxBackups + 1, Len(files)) ELSE <<>>
        kept == IF cut THEN SubSeq(files, 1, maxBackups) ELSE files
        cutoff == now - HoursPerDay * maxAge
        old(f) == f.timestamp < cutoff
    IN  byCount \o (IF maxAge > 0 THEN SelectSeq(kept, old) ELSE <<>>)

\* RemoveEach giving up at the first os.Remove that fails
RECURSIVE RemoveUntilError(_, _)
RemoveUntilError(w, deletes) ==
    IF deletes = <<>> THEN {w}
    ELSE LET f == Head(deletes).name
             removed == [Ev(w, "remove", f, TRUE) EXCEPT !.disk = RemoveName(@, f)]
             failed == Ev(w, "remove", f, FALSE)
         IN  RemoveUntilError(removed, Tail(deletes))
             \cup (IF MayFail("remove") THEN {failed} ELSE {})

\* os.Remove of each marked file, its error ignored
RECURSIVE RemoveEach(_, _)
RemoveEach(w, deletes) ==
    IF deletes = <<>> THEN {w}
    ELSE LET f == Head(deletes).name
             removed == [Ev(w, "remove", f, TRUE) EXCEPT !.disk = RemoveName(@, f)]
             failed == Ev(w, "remove", f, FALSE)
         IN  UNION {RemoveEach(x, Tail(deletes)) :
                        x \in {removed} \cup (IF MayFail("remove") THEN {failed} ELSE {})}

mill(w) ==
    IF maxBackups = 0 /\ maxAge = 0 THEN {w}
    ELSE (IF ~w.dirExists \/ MayFail("readdir")
          THEN {Ev(w, "readdir", <<>>, FALSE)} ELSE {})
         \cup (IF w.dirExists
               THEN UNION {RemoveEach(Ev(w, "readdir", <<>>, TRUE), Deletes(files)) :
                               files \in byFormatTime(logFiles(w))}
               ELSE {})

(***************************************************************************)
(* Opening and rotating.                                                   *)
(***************************************************************************)
\* backupName: the first index whose os.Stat answers "does not exist"; an
\* index whose Stat fails otherwise is passed over like one that exists
RECURSIVE backupNameFrom(_, _, _)
backupNameFrom(w, index, errs) ==
    LET backupPath == BackupCandidate(filename, LocalDay(now), index)
    IN  IF backupPath \in DOMAIN w.disk THEN backupNameFrom(w, index + 1, errs)
        ELSE {backupPath}
             \cup (IF MayFail("probe") /\ errs > 0
                   THEN backupNameFrom(w, index + 1, errs - 1) ELSE {})

backupName(w) == backupNameFrom(w, 1, MaxProbeErrs)

\* os.OpenFile(name, O_CREATE|O_WRONLY|O_TRUNC, mode)
createFile(w) ==
    (IF MayFail("create") THEN {Fail(Ev(w, "create", filename, FALSE), "create")} ELSE {})
    \cup {Ok([Ev(w, "create", filename, TRUE) EXCEPT
                !.disk = [n \in DOMAIN w.disk \cup {filename} |->
                            IF n = filename
                            THEN [ino |-> IF filename \in DOMAIN w.disk
                                          THEN w.disk[filename].ino ELSE FreshIno(w),
                                  data |-> <<>>]
                            ELSE w.disk[n]],
                !.file = IF filename \in DOMAIN w.disk
                         THEN w.disk[filename].ino ELSE FreshIno(w),
                !.size = 0])}

\* the error of an outcome in which backupName never returns: os.Stat fails
\* with an error other than "does not exist" for every index
Hang == "hang"

\* renameLive starting no goroutine
renameLiveNoTask(w) ==
    (IF MayFail("probe") THEN {Fail(Ev(w, "probe", <<>>, FALSE), Hang)} ELSE {})
    \cup
    UNION {(IF MayFail("rename")
            THEN {Fail(Ev(w, "rename", newname, FALSE), "rename")} ELSE {})
           \cup {Ok(LET r == [Ev(w, "rename", newname, TRUE) EXCEPT
                                 !.disk = RenameName(@, filename, newname)]
                    IN  r)} :
           newname \in backupName(w)}

\* the rename of the live file and the start of the compression goroutine; no
\* rename is reached if backupName never returns
renameLive(w) ==
    (IF MayFail("probe") THEN {Fail(Ev(w, "probe", <<>>, FALSE), Hang)} ELSE {})
    \cup
    UNION {(IF MayFail("rename")
            THEN {Fail(Ev(w, "rename", newname, FALSE), "rename")} ELSE {})
           \cup {Ok(LET r == [Ev(w, "rename", newname, TRUE) EXCEPT
                                 !.disk = RenameName(@, filename, newname)]
                    IN  IF compress THEN Ev(r, "go", newname, TRUE) ELSE r)} :
           newname \in backupName(w)}

openNew(w) ==
    (IF MayFail("mkdir") THEN {Fail(Ev(w, "mkdir", <<>>, FALSE), "mkdir")} ELSE {})
    \cup LET d == [Ev(w, "mkdir", <<>>, TRUE) EXCEPT !.dirExists = TRUE]
             \* os.Stat(name) answers err == nil, or an error
             statOK == IF filename \in DOMAIN d.disk THEN {TRUE} ELSE {}
             statErr == IF filename \notin DOMAIN d.disk \/ MayFail("stat2") THEN {FALSE} ELSE {}
         IN  UNION {IF found
                    THEN UNION {IF r.err # NoErr THEN {r} ELSE createFile(r.w) :
                                    r \in renameLive(d)}
                    ELSE createFile(IF filename \in DOMAIN d.disk
                                    THEN Ev(d, "stat", filename, FALSE) ELSE d) :
                    found \in statOK \cup statErr}

\* rotate without closing the handle first
rotateWithoutClose(w) ==
    UNION {IF o.err # NoErr THEN {o} ELSE {Ok(m) : m \in mill(o.w)} :
               o \in openNew(w)}

rotate(w) ==
    UNION {IF c.err # NoErr THEN {c}
           ELSE UNION {IF o.err # NoErr THEN {o} ELSE {Ok(m) : m \in mill(o.w)} :
                           o \in openNew(c.w)} :
           c \in close(w)}

\* openExistingOrNew rotating only if the write would exceed maxSize
openExistingOrNewIfExceeding(w, writeLen) ==
    UNION {IF filename \notin DOMAIN m.disk THEN openNew(m)
           ELSE LET info == m.disk[filename]
                IN  (IF MayFail("stat") THEN {Fail(Ev(m, "stat", filename, FALSE), "stat")}
                     ELSE {})
                    \cup (IF Len(info.data) + writeLen > maxSize THEN rotate(m)
                          ELSE (IF MayFail("append")
                                THEN openNew(Ev(m, "open", filename, FALSE)) ELSE {})
                               \cup {Ok([Ev(m, "open", filename, TRUE) EXCEPT
                                           !.file = info.ino, !.size = Len(info.data)])}) :
           m \in mill(w)}

openExistingOrNew(w, writeLen) ==
    UNION {IF filename \notin DOMAIN m.disk THEN openNew(m)
           ELSE LET info == m.disk[filename]
                IN  (IF MayFail("stat") THEN {Fail(Ev(m, "stat", filename, FALSE), "stat")}
                     ELSE {})
                    \cup (IF Len(info.data) + writeLen >= maxSize THEN rotate(m)
                          ELSE (IF MayFail("append")
                                THEN openNew(Ev(m, "open", filename, FALSE)) ELSE {})
                               \cup {Ok([Ev(m, "open", filename, TRUE) EXCEPT
                                           !.file = info.ino, !.size = Len(info.data)])}) :
           m \in mill(w)}

\* writeOpen with the length check after the lazy open
writeOpenThenCheck(w, p) ==
    UNION {IF o.err # NoErr THEN {o}
           ELSE IF Len(p) > maxSize THEN {Fail(o.w, "oversize")}
           ELSE IF o.w.size + Len(p) > maxSize THEN rotate(o.w)
           ELSE {o} :
           o \in (IF w.file = Nil THEN openExistingOrNew(w, Len(p)) ELSE {Ok(w)})}

\* Write up to the physical write: the length check, the lazy open, the rotation
writeOpen(w, p) ==
    IF Len(p) > maxSize THEN {Fail(w, "oversize")}
    ELSE UNION {IF o.err # NoErr THEN {o}
                ELSE IF o.w.size + Len(p) > maxSize THEN rotate(o.w)
                ELSE {o} :
                o \in (IF w.file = Nil THEN openExistingOrNew(w, Len(p)) ELSE {Ok(w)})}

\* fileWrite with w.size += len(p) in place of w.size += n
fileWriteCountsBuffer(w, p, n) ==
    [Ev(w, "write", filename, n = Len(p)) EXCEPT
        !.disk = [m \in DOMAIN w.disk |->
                    IF w.disk[m].ino = w.file
                    THEN [w.disk[m] EXCEPT !.data = @ \o SubSeq(p, 1, n)]
                    ELSE w.disk[m]],
        !.size = @ + Len(p)]

\* w.file.Write(p) writing n bytes, and w.size += n
fileWrite(w, p, n) ==
    [Ev(w, "write", filename, n = Len(p)) EXCEPT
        !.disk = [m \in DOMAIN w.disk |->
                    IF w.disk[m].ino = w.file
                    THEN [w.disk[m] EXCEPT !.data = @ \o SubSeq(p, 1, n)]
                    ELSE w.disk[m]],
        !.size = @ + n]

(***************************************************************************)
(* The calls.  A caller invokes Write or Close, waits for the mutex, runs  *)
(* the call under it and releases it on return (the deferred Unlock).      *)
(***************************************************************************)
Return(p, op, n, err) == [proc |-> p, op |-> op, buf |-> buf[p], n |-> n, err |-> err]

\* the names of the files renamed by the system calls of t, in order
Renamed(t) ==
    LET ok(e) == e.op = "rename" /\ e.ok
        names == SelectSeq(t, ok)
    IN  [i \in 1..Len(names) |-> names[i].name]

Apply(w) ==
    /\ file' = w.file
    /\ size' = w.size
    /\ disk' = w.disk
    /\ dirExists' = w.dirExists
    /\ trace' = w.trace
    /\ rotated' = rotated \o SubSeq(Renamed(w.trace), Len(Renamed(trace)) + 1, Len(Renamed(w.trace)))
    /\ tasks' = tasks \cup {w.trace[i].name :
                              i \in {j \in (Len(trace) + 1)..Len(w.trace) : w.trace[j].op = "go"}}

\* the calls made so far: those that took the mutex and those waiting for it
Calls == nops + Cardinality({q \in Procs : pc[q] \in {"lockWrite", "lockClose"}})

\* a caller calls Write(p) with a buffer of n bytes
CallWrite(p, n) ==
    /\ p \in callers /\ pc[p] = "idle" /\ Calls < budget
    /\ pc' = [pc EXCEPT ![p] = "lockWrite"]
    /\ buf' = [buf EXCEPT ![p] = [i \in 1..n |-> 0]]
    /\ UNCHANGED <<config, file, size, mu, disk, dirExists, now, ret, tasks, trace, pre,
                   written, rotated, prevErr, prevOp, nops, ticks>>

CallClose(p) ==
    /\ p \in callers /\ pc[p] = "idle" /\ Calls < budget
    /\ pc' = [pc EXCEPT ![p] = "lockClose"]
    /\ buf' = [buf EXCEPT ![p] = <<>>]
    /\ UNCHANGED <<config, file, size, mu, disk, dirExists, now, ret, tasks, trace, pre,
                   written, rotated, prevErr, prevOp, nops, ticks>>

\* Lock without the mutex: the caller proceeds whoever holds it
LockNoMutex(p) ==
    /\ pc[p] \in {"lockWrite", "lockClose"}
    /\ mu' = p
    /\ pc' = [pc EXCEPT ![p] = IF pc[p] = "lockWrite" THEN "write" ELSE "close"]
    /\ pre' = [file |-> file, size |-> size, disk |-> disk, dirExists |-> dirExists,
               now |-> now]
    /\ trace' = <<>>
    /\ nops' = nops + 1
    /\ buf' = [buf EXCEPT ![p] = [i \in 1..Len(buf[p]) |-> nops + 1]]
    /\ UNCHANGED <<config, file, size, disk, dirExists, now, ret, tasks, written,
                   rotated, prevErr, prevOp, ticks>>

\* w.mu.Lock().  nops counts the acquisitions, and the bytes of the buffer are
\* marked with the number of the caller's acquisition, so that the files show
\* which call wrote each byte.
Lock(p) ==
    /\ pc[p] \in {"lockWrite", "lockClose"} /\ mu = 0
    /\ mu' = p
    /\ pc' = [pc EXCEPT ![p] = IF pc[p] = "lockWrite" THEN "write" ELSE "close"]
    /\ pre' = [file |-> file, size |-> size, disk |-> disk, dirExists |-> dirExists,
               now |-> now]
    /\ trace' = <<>>
    /\ nops' = nops + 1
    /\ buf' = [buf EXCEPT ![p] = [i \in 1..Len(buf[p]) |-> nops + 1]]
    /\ UNCHANGED <<config, file, size, disk, dirExists, now, ret, tasks, written,
                   rotated, prevErr, prevOp, ticks>>

\* Write up to the physical write; an error returns 0 and unlocks; a call
\* whose backupName never returns stays in its loop, holding the mutex
WriteOpen(p) ==
    /\ pc[p] = "write"
    /\ \E o \in writeOpen(World, buf[p]) :
        /\ Apply(o.w)
        /\ IF o.err = Hang
           THEN /\ pc' = [pc EXCEPT ![p] = "backupName"]
                /\ UNCHANGED <<ret, prevErr, prevOp, mu>>
           ELSE IF o.err # NoErr
           THEN /\ ret' = Return(p, "Write", 0, o.err)
                /\ prevErr' = ret.err
                /\ prevOp' = ret.op
                /\ mu' = 0
                /\ pc' = [pc EXCEPT ![p] = "idle"]
           ELSE /\ pc' = [pc EXCEPT ![p] = "append"]
                /\ UNCHANGED <<ret, prevErr, prevOp, mu>>
    /\ UNCHANGED <<config, now, buf, pre, written, nops, ticks>>

\* n, err = w.file.Write(p); w.size += int64(n); return n, err
WriteAppend(p) ==
    /\ pc[p] = "append"
    /\ \E n \in 0..Len(buf[p]) :
        /\ n = Len(buf[p]) \/ MayFail("write")
        /\ Apply(fileWrite(World, buf[p], n))
        /\ ret' = Return(p, "Write", n, IF n = Len(buf[p]) THEN NoErr ELSE "write")
        /\ written' = written \o SubSeq(buf[p], 1, n)
    /\ prevErr' = ret.err
    /\ prevOp' = ret.op
    /\ mu' = 0
    /\ pc' = [pc EXCEPT ![p] = "idle"]
    /\ UNCHANGED <<config, now, buf, pre, nops, ticks>>

Close(p) ==
    /\ pc[p] = "close"
    /\ \E o \in close(World) :
        /\ Apply(o.w)
        /\ ret' = Return(p, "Close", 0, o.err)
    /\ prevErr' = ret.err
    /\ prevOp' = ret.op
    /\ mu' = 0
    /\ pc' = [pc EXCEPT ![p] = "idle"]
    /\ UNCHANGED <<config, now, buf, pre, written, nops, ticks>>

\* the goroutine started at line 129 runs compressFile(name), whose body is
\* empty, and ends
compressFile(name) ==
    /\ name \in tasks
    /\ tasks' = tasks \ {name}
    /\ UNCHANGED <<config, file, size, mu, disk, dirExists, now, pc, buf, ret, trace,
                   pre, written, rotated, prevErr, prevOp, nops, ticks>>

\* time passes; a call reads the clock as it stands when it takes the mutex
Tick ==
    /\ mu = 0
    /\ ticks < MaxTicks
    /\ ticks' = ticks + 1
    /\ now' = now + TickHours
    /\ UNCHANGED <<config, file, size, mu, disk, dirExists, pc, buf, ret, tasks, trace,
                   pre, written, rotated, prevErr, prevOp, nops>>

\* the lengths of the buffers written: up to one byte more than maxSize
BufLens == 0..((IF maxSize > 0 THEN maxSize ELSE 0) + 1)

Next ==
    \/ \E p \in Procs : \E n \in BufLens : CallWrite(p, n)
    \/ \E p \in Procs : CallClose(p)
    \/ \E p \in Procs : Lock(p)
    \/ \E p \in Procs : WriteOpen(p)
    \/ \E p \in Procs : WriteAppend(p)
    \/ \E p \in Procs : Close(p)
    \/ \E name \in tasks : compressFile(name)
    \/ Tick

(***************************************************************************)
(* Initial states: NewRotateWriter's result, and a directory.              *)
(***************************************************************************)
\* the instant the model starts at: 2024-02-28 16:00 UTC
StartTime == DayNumber(2024, 2, 28) * HoursPerDay + 16

AllFaults == {"close", "stat", "append", "mkdir", "stat2", "rename", "create", "probe",
              "readdir", "remove", "write"}

\* a file that timeFromName accepts for this writer: <prefix>-<date><ext>
DatedName(day) ==
    prefixAndExt.prefix \o <<"-">> \o FormatDate(day) \o prefixAndExt.ext

\* a backup of another log file in the same directory
OtherBackup(day) == BackupCandidate(<<"b">> \o Ext(filename), day, 1)

\* a directory holding the files named, the live file with len bytes (none if len < 0)
MkDisk(names, len) ==
    LET all == names \cup (IF len >= 0 THEN {filename} ELSE {})
        number == CHOOSE f \in [all -> 1..Cardinality(all)] :
                      \A a, b \in all : a # b => f[a] # f[b]
    IN  [n \in all |-> [ino |-> number[n],
                        data |-> IF n = filename THEN [i \in 1..len |-> 0] ELSE <<0>>]]

\* NewRotateWriter(filename, mb, age, backups, compress): maxSize is mb megabytes
InitWriter(names, mbs, ages, backups, compresses) ==
    /\ filename \in names
    /\ maxSize \in {mb * BytesPerMB : mb \in mbs}
    /\ maxAge \in ages
    /\ maxBackups \in backups
    /\ compress \in compresses
    /\ file = Nil
    /\ size = 0
    /\ mu = 0

InitCalls ==
    /\ pc = [p \in Procs |-> "idle"]
    /\ buf = [p \in Procs |-> <<>>]
    /\ ret = [proc |-> 0, op |-> "none", buf |-> <<>>, n |-> 0, err |-> NoErr]
    /\ tasks = {}
    /\ trace = <<>>
    /\ pre = [file |-> Nil, size |-> 0, disk |-> disk, dirExists |-> dirExists,
              now |-> now]
    /\ written = <<>>
    /\ rotated = <<>>
    /\ prevErr = NoErr
    /\ prevOp = "none"
    /\ nops = 0
    /\ ticks = 0

\* the environment: a clock, a time zone, the system calls that may fail, a
\* directory with the live file of one of the lengths given (none if negative)
\* and one of the sets of other files
InitEnv(zones, faultSets, lens, others) ==
    /\ now = StartTime
    /\ zone \in zones
    /\ faults \in faultSets
    /\ \E len \in lens : \E names \in others : disk = MkDisk(names, len)
    /\ dirExists \in IF DOMAIN disk = {} THEN BOOLEAN ELSE {TRUE}

Today == LocalDay(StartTime)

\* One caller, every system call may fail, no retention.
Init ==
    /\ InitWriter({<<"a", ".", "l">>}, {1}, {0}, {0}, {TRUE})
    /\ callers = {1}
    /\ budget = MaxOps
    /\ InitEnv({0}, {AllFaults}, -1..(maxSize + 1),
               {{}, {BackupCandidate(filename, Today, 1)}})
    /\ InitCalls

Spec == Init /\ [][Next]_vars

\* Concurrent callers, no failures, no retention.
InitConc ==
    /\ InitWriter({<<"a", ".", "l">>}, {1}, {0}, {0}, {TRUE})
    /\ callers = Procs
    /\ budget = MaxOps
    /\ InitEnv({0}, {{}}, {-1, 1, maxSize},
               {{}, {BackupCandidate(filename, Today, 1)}})
    /\ InitCalls

SpecConc == InitConc /\ [][Next]_vars

\* One caller, retention by count and by age, a directory holding dated files
\* of this writer and of another; the listing and the deletions may fail.
InitRet ==
    /\ InitWriter({<<"a", ".", "l">>, <<"a">>}, {1}, {0, 1}, {0, 1}, {TRUE})
    /\ callers = {1}
    /\ budget = MaxOps
    /\ InitEnv({-8, 0}, {{"readdir", "remove"}}, {-1, maxSize},
               {{},
                {BackupCandidate(filename, Today - 3, 1), OtherBackup(Today - 3)},
                {DatedName(Today - 3), DatedName(Today - 2), DatedName(Today)}})
    /\ InitCalls

SpecRet == InitRet /\ [][Next]_vars

\* One caller making one call more, retention by count, compression on; Close
\* and the reopening of the live file may fail.
InitLife ==
    /\ InitWriter({<<"a", ".", "l">>}, {1}, {0}, {1}, {TRUE})
    /\ callers = {1}
    /\ budget = MaxOps + 1
    /\ InitEnv({0}, {{"close", "append"}}, {-1, 1}, {{}})
    /\ InitCalls

SpecLife == InitLife /\ [][Next]_vars

\* One caller of a writer constructed with a zero or negative maxSize; every
\* system call may fail.
InitCfg ==
    /\ InitWriter({<<"a", ".", "l">>}, {-1, 0}, {0}, {0}, {TRUE})
    /\ callers = {1}
    /\ budget = MaxOps
    /\ InitEnv({0}, {{}, AllFaults}, {-1, 0, 1}, {{}})
    /\ InitCalls

SpecCfg == InitCfg /\ [][Next]_vars

\* Concurrent callers, no retention; os.Stat in backupName may fail.  Every
\* caller waiting for the mutex gets it if it is free again and again, and a
\* call that can take its next step takes it.
InitFair ==
    /\ InitWriter({<<"a", ".", "l">>}, {1}, {0}, {0}, {TRUE})
    /\ callers = Procs
    /\ budget = MaxOps
    /\ InitEnv({0}, {{}, {"probe"}}, {-1, maxSize}, {{}})
    /\ InitCalls

FairSpec ==
    /\ InitFair /\ [][Next]_vars
    /\ \A p \in Procs : /\ SF_vars(Lock(p))
                        /\ WF_vars(WriteOpen(p))
                        /\ WF_vars(WriteAppend(p))
                        /\ WF_vars(Close(p))

(***************************************************************************)
(* Properties.                                                             *)
(***************************************************************************)
\* a call has returned and no other has taken the mutex: ret, trace and pre are
\* its result, its system calls and the state it started from
Returned(op) == mu = 0 /\ ret.op = op

NoFailure(t) == \A i \in 1..Len(t) : t[i].ok

Happened(t, op, ok) == \E i \in 1..Len(t) : t[i].op = op /\ t[i].ok = ok

LiveData(d) == IF filename \in DOMAIN d THEN d[filename].data ELSE <<>>

\* C1: with maxSize > 0, whenever the handle is open it is open on the file at
\* the writer's path, size is that file's length on disk, and that length is at
\* most maxSize -- after every Write and Close, whatever system calls failed
\* and however many bytes a physical write wrote.
SizeInvariant ==
    (maxSize > 0 /\ file # Nil) =>
        /\ filename \in DOMAIN disk
        /\ disk[filename].ino = file
        /\ size = Len(disk[filename].data)
        /\ Len(disk[filename].data) <= maxSize

\* a physical write that wrote part of its buffer, after a rotation, handle open
SizeInvariantWitness ==
    /\ Returned("Write") /\ ret.err = "write" /\ ret.n > 0
    /\ file # Nil /\ size > 0 /\ rotated # <<>>

\* C3: a Write longer than maxSize returns an error and 0 bytes, and leaves the
\* handle, size, the directory and every file as they were; it makes no system
\* call.
OversizedRejected ==
    (Returned("Write") /\ Len(ret.buf) > maxSize) =>
        /\ ret.n = 0 /\ ret.err = "oversize"
        /\ file = pre.file /\ size = pre.size
        /\ disk = pre.disk /\ dirExists = pre.dirExists
        /\ trace = <<>>

\* an oversized Write on an open handle with data in the live file
OversizedRejectedWitness ==
    /\ Returned("Write") /\ Len(ret.buf) > maxSize
    /\ file # Nil /\ size > 0

\* C2: a Write of N <= maxSize bytes issued on an open handle with
\* size + N > maxSize that succeeds leaves exactly one file more than before,
\* holding what the live file held, and a live file holding exactly the N bytes
\* (size = N); every other file is as it was.
RotationOnce ==
    (Returned("Write") /\ ret.err = NoErr /\ pre.file # Nil
        /\ Len(ret.buf) <= maxSize /\ pre.size + Len(ret.buf) > maxSize) =>
        \E b \in DOMAIN disk \ DOMAIN pre.disk :
            /\ DOMAIN disk = DOMAIN pre.disk \cup {b}
            /\ disk[b].data = LiveData(pre.disk)
            /\ LiveData(disk) = ret.buf
            /\ size = Len(ret.buf)
            /\ \A f \in DOMAIN pre.disk \ {filename} : disk[f] = pre.disk[f]

\* the indexes a backup name of the model can carry
Indexes == 1..(MaxOps + MaxProbeErrs + 2)

\* C7: every rotation renames the live file to
\* <prefix>-<date of the rotation>-<index><ext> with index the smallest
\* positive integer for which the directory holds no file of that name: the
\* name is free, and every smaller index is taken.
SmallestFreeIndex ==
    Returned("Write") =>
        \A i \in 1..Len(trace) :
            (trace[i].op = "rename" /\ trace[i].ok) =>
                \E k \in Indexes :
                    /\ trace[i].name = BackupCandidate(filename, LocalDay(pre.now), k)
                    /\ trace[i].name \notin DOMAIN pre.disk
                    /\ \A j \in 1..(k - 1) :
                           BackupCandidate(filename, LocalDay(pre.now), j) \in DOMAIN pre.disk

\* the errors of Write that come from opening or rotating the file
OpenFailures == {"close", "mkdir", "rename", "create"}

\* C9: a Write that fails because Close, MkdirAll, Rename or the creation of the
\* new file failed returns 0 bytes and leaves no open handle; a later Write on
\* the unopened writer whose system calls all succeed opens the file again and
\* loses nothing: the bytes the live file held are still in it, before the new
\* bytes, or in one new backup, and every other file is as it was.
FailureLeavesUnopened ==
    Returned("Write") =>
        /\ ret.err \in OpenFailures => (ret.n = 0 /\ file = Nil)
        /\ (pre.file = Nil /\ NoFailure(trace) /\ Len(ret.buf) <= maxSize) =>
              /\ ret.err = NoErr /\ ret.n = Len(ret.buf) /\ file # Nil
              /\ Happened(trace, "open", TRUE) \/ Happened(trace, "create", TRUE)
              /\ \A f \in DOMAIN pre.disk \ {filename} :
                     f \in DOMAIN disk /\ disk[f] = pre.disk[f]
              /\ \/ /\ DOMAIN disk = DOMAIN pre.disk \cup {filename}
                    /\ LiveData(disk) = LiveData(pre.disk) \o ret.buf
                 \/ \E b \in DOMAIN disk \ DOMAIN pre.disk :
                        /\ DOMAIN disk = DOMAIN pre.disk \cup {b}
                        /\ disk[b].data = LiveData(pre.disk)
                        /\ LiveData(disk) = ret.buf

\* a Write that succeeds right after one that failed in a rotation which had
\* already renamed the live file
FailureLeavesUnopenedWitness ==
    /\ Returned("Write") /\ ret.err = NoErr /\ Len(ret.buf) > 0
    /\ prevErr = "create" /\ pre.file = Nil /\ NoFailure(trace)
    /\ rotated # <<>> /\ filename \notin DOMAIN pre.disk

\* the contents of the files named, one after the other
RECURSIVE Concat(_, _)
Concat(d, names) ==
    IF names = <<>> THEN <<>>
    ELSE (IF Head(names) \in DOMAIN d THEN d[Head(names)].data ELSE <<>>)
         \o Concat(d, Tail(names))

\* the calendar days a behaviour of the model can reach
Days == Today..(Today + MaxTicks)

\* the day and index a backup name of this writer carries
BackupKey(name) ==
    CHOOSE k \in Days \X Indexes : BackupCandidate(filename, k[1], k[2]) = name

KeyLess(a, b) == a[1] < b[1] \/ (a[1] = b[1] /\ a[2] < b[2])

\* C4: with no retention and no failing system call, under every interleaving
\* of concurrent Write and Close calls: the backups in rotation order followed
\* by the live file hold the bytes the directory started with and then exactly
\* the bytes of the successful Writes, in the order the callers took the mutex
\* (the bytes of a call carry the number of its acquisition, so they never
\* decrease); the bytes of one call are all in one file; and the rotation order
\* is the order of the backups' dates and indexes.
NoLossNoInterleave ==
    LET all == Concat(disk, rotated) \o LiveData(disk)
        byCall(b) == b # 0
    IN  /\ \A i \in 1..Len(rotated) : rotated[i] \in DOMAIN disk
        /\ SelectSeq(all, byCall) = written
        /\ \A i \in 1..(Len(all) - 1) : all[i] <= all[i + 1]
        /\ \A c \in 1..nops :
               Cardinality({f \in DOMAIN disk :
                               \E i \in 1..Len(disk[f].data) : disk[f].data[i] = c}) <= 1
        /\ \A i \in 1..(Len(rotated) - 1) :
               KeyLess(BackupKey(rotated[i]), BackupKey(rotated[i + 1]))

\* two callers whose Writes overlapped in time and both rotated the file
NoLossNoInterleaveWitness ==
    /\ Len(rotated) >= 2 /\ mu = 0
    /\ \E i, j \in 1..Len(written) : written[i] # written[j]
    /\ \E p \in Procs : pc[p] = "idle" /\ buf[p] # <<>> /\ ret.proc # p

\* the days a file in the directory of the model can be dated
AllDays == (Today - 3)..(Today + MaxTicks)

\* the backups in d that carry this writer's name: <prefix>-<date>-<index><ext>
OwnBackups(d) ==
    {f \in DOMAIN d : \E day \in AllDays, k \in Indexes :
                          f = BackupCandidate(filename, day, k)}

\* the day a backup of this writer is dated
BackupDay(name) ==
    CHOOSE day \in AllDays : \E k \in Indexes : name = BackupCandidate(filename, day, k)

\* the call listed the directory and every deletion it tried succeeded
SweepSucceeded == Happened(trace, "readdir", TRUE) /\ NoFailure(trace)

RetentionByAge ==
    (Returned("Write") /\ maxAge > 0 /\ SweepSucceeded) =>
        \A f \in OwnBackups(disk) :
            ~(BackupDay(f) * HoursPerDay < pre.now - HoursPerDay * maxAge)

\* C8: the sweep never removes the file at the writer's path: that name is no
\* candidate of the sweep, and no os.Remove of a call is made on it.
LiveFileNeverSwept ==
    /\ \A f \in logFiles(World) : f.name # filename
    /\ \A i \in 1..Len(trace) : trace[i].op = "remove" => trace[i].name # filename

\* a sweep that removed files of the directory while the live file was there
LiveFileNeverSweptWitness ==
    /\ Returned("Write") /\ Happened(trace, "remove", TRUE)
    /\ filename \in DOMAIN pre.disk /\ filename \in DOMAIN disk /\ file # Nil

\* the system calls of a trace that are not the sweep's
NotSweep(t) ==
    LET other(e) == e.op \notin {"readdir", "remove"}
    IN  SelectSeq(t, other)

\* the names a trace tried to remove, in order
RemoveNames(t) ==
    LET rm(e) == e.op = "remove"
        es == SelectSeq(t, rm)
    IN  [i \in 1..Len(es) |-> es[i].name]

\* what the writer's handle is open on
HandleOn(w) ==
    IF w.file = Nil THEN "none"
    ELSE IF filename \in DOMAIN w.disk /\ w.disk[filename].ino = w.file THEN "live"
    ELSE "unlinked"

\* no listing and no deletion of the trace failed
SweepClean(t) == \A i \in 1..Len(t) : t[i].op \in {"readdir", "remove"} => t[i].ok

\* C10: in every state where a Write is about to run in an existing directory,
\* each outcome in which the listing or a deletion of a sweep fails has a twin in
\* which they all succeed, with the same error, handle, size, live file and
\* other system calls; and a sweep that lists the directory tries to remove every file it
\* marked, whichever removals fail, and touches neither handle nor size.
RetentionBestEffort ==
    \A p \in Procs :
        (pc[p] = "write" /\ dirExists) =>
            /\ LET outs == writeOpen(World, buf[p])
               IN  \A o \in outs : \E c \in outs :
                       /\ SweepClean(c.w.trace)
                       /\ c.err = o.err /\ c.w.size = o.w.size
                       /\ HandleOn(c.w) = HandleOn(o.w)
                       /\ LiveData(c.w.disk) = LiveData(o.w.disk)
                       /\ NotSweep(c.w.trace) = NotSweep(o.w.trace)
            /\ \A m \in mill(World) :
                   /\ m.file = file /\ m.size = size
                   /\ Happened(m.trace, "readdir", TRUE) =>
                          \E files \in byFormatTime(logFiles(World)) :
                              RemoveNames(m.trace)
                                  = [i \in 1..Len(Deletes(files)) |-> Deletes(files)[i].name]

\* a Write that succeeded although a deletion of its sweep failed, the sweep
\* going on to the next marked file
RetentionBestEffortWitness ==
    /\ Returned("Write") /\ ret.err = NoErr /\ ret.n > 0
    /\ \E i, j \in 1..Len(trace) :
           /\ i < j
           /\ trace[i].op = "remove" /\ ~trace[i].ok
           /\ trace[j].op = "remove" /\ trace[j].name # trace[i].name

\* C11: a Close on a writer with no handle returns nil, makes no system call
\* and changes nothing; a Close on an open writer makes one Close call on the
\* handle and leaves the writer with no handle, whether or not that call
\* failed; no file changes.
CloseIdempotent ==
    Returned("Close") =>
        /\ file = Nil /\ disk = pre.disk /\ dirExists = pre.dirExists
        /\ pre.file = Nil => (ret.err = NoErr /\ trace = <<>> /\ size = pre.size)
        /\ pre.file # Nil => (Len(trace) = 1 /\ trace[1].op = "close"
                                 /\ (ret.err = NoErr) = trace[1].ok)

\* a second Close, after a Close of an open handle that returned an error
CloseIdempotentWitness ==
    /\ Returned("Close") /\ ret.err = NoErr /\ pre.file = Nil
    /\ prevOp = "Close" /\ prevErr = "close" /\ written # <<>>

\* C12: on a writer constructed with maxSize <= 0 no Write succeeds, whatever
\* the length of its buffer, and no Write creates, renames or changes a file.
ConfigErrorReported ==
    (Returned("Write") /\ maxSize <= 0) =>
        /\ ret.err # NoErr
        /\ disk = pre.disk /\ file = Nil

\* C13: every name a rotation renames the live file to is accepted by
\* timeFromName with the writer's own prefix and extension, and the time it
\* yields is the (local) date of the rotation.
NameRoundTrip ==
    \A i \in 1..Len(trace) :
        (trace[i].op = "rename" /\ trace[i].ok) =>
            LET parsed == timeFromName(trace[i].name, prefixAndExt.prefix, prefixAndExt.ext)
            IN  /\ parsed.err = NoErr
                /\ parsed.t = LocalDay(pre.now) * HoursPerDay

\* C14: a Write of n bytes, none of whose system calls fails, on a live file
\* whose size plus n is at most maxSize appends the bytes to that file and
\* creates no backup, whether the handle was open or is opened by the call.
RotateOnlyWhenExceeding ==
    (Returned("Write") /\ NoFailure(trace) /\ filename \in DOMAIN pre.disk
        /\ Len(LiveData(pre.disk)) + Len(ret.buf) <= maxSize) =>
        /\ ret.err = NoErr
        /\ Renamed(trace) = <<>> /\ DOMAIN disk = DOMAIN pre.disk
        /\ LiveData(disk) = LiveData(pre.disk) \o ret.buf

\* C15: NewRotateWriter leaves the writer unopened and makes no system call; a
\* Write of at most maxSize bytes with no open handle, none of whose system
\* calls fails, succeeds and (a) if the live file exists and its size plus the
\* length of the buffer is >= maxSize, renames it to one new backup and writes
\* the buffer to a new live file; (b) if it exists otherwise, opens it for
\* appending with size its length on disk, its contents kept before the
\* buffer; (c) if it does not exist, creates the directory and the file, which
\* holds the buffer.  size is the live file's length afterwards.
LazyOpen ==
    /\ nops = 0 => (file = Nil /\ size = 0 /\ trace = <<>>)
    /\ (Returned("Write") /\ pre.file = Nil /\ NoFailure(trace)
            /\ Len(ret.buf) <= maxSize) =>
          LET n == Len(ret.buf)
              old == LiveData(pre.disk)
          IN  /\ ret.err = NoErr /\ ret.n = n
              /\ file # Nil /\ HandleOn(World) = "live" /\ size = Len(LiveData(disk))
              /\ \A f \in DOMAIN pre.disk \ {filename} : f \in DOMAIN disk /\ disk[f] = pre.disk[f]
              /\ IF filename \notin DOMAIN pre.disk
                 THEN /\ DOMAIN disk = DOMAIN pre.disk \cup {filename}
                      /\ LiveData(disk) = ret.buf /\ dirExists
                      /\ Happened(trace, "mkdir", TRUE) /\ Happened(trace, "create", TRUE)
                 ELSE IF Len(old) + n >= maxSize
                 THEN /\ Len(Renamed(trace)) = 1
                      /\ Renamed(trace)[1] \notin DOMAIN pre.disk
                      /\ DOMAIN disk = DOMAIN pre.disk \cup {Renamed(trace)[1]}
                      /\ disk[Renamed(trace)[1]].data = old
                      /\ LiveData(disk) = ret.buf
                 ELSE /\ Renamed(trace) = <<>> /\ DOMAIN disk = DOMAIN pre.disk
                      /\ Happened(trace, "open", TRUE) /\ ~Happened(trace, "create", TRUE)
                      /\ LiveData(disk) = old \o ret.buf

\* a lazily opening Write that rotated a file whose size plus the buffer was
\* exactly maxSize
LazyOpenWitness ==
    /\ Returned("Write") /\ pre.file = Nil /\ NoFailure(trace) /\ ret.err = NoErr
    /\ filename \in DOMAIN pre.disk /\ LiveData(pre.disk) # <<>> /\ ret.buf # <<>>
    /\ Len(LiveData(pre.disk)) + Len(ret.buf) = maxSize
    /\ Renamed(trace) # <<>>

\* C16: in every Write in which the live file was renamed to a backup and a new
\* live file was then created, the retention sweep lists the directory after
\* the creation and before the Write returns.
SweepAfterRotation ==
    Returned("Write") =>
        \A i, j \in 1..Len(trace) :
            (i < j /\ trace[i].op = "rename" /\ trace[i].ok
                   /\ trace[j].op = "create" /\ trace[j].ok) =>
                \E k \in (j + 1)..Len(trace) : trace[k].op = "readdir"

\* the handles open after the first k system calls of the call in progress (or
\* of the last call): the one the call started with, plus each file opened,
\* less each handle closed (Close releases the descriptor even if it fails)
OpenHandles(k) ==
    (IF pre.file # Nil THEN 1 ELSE 0)
    + Cardinality({i \in 1..k : trace[i].op \in {"open", "create"} /\ trace[i].ok})
    - Cardinality({i \in 1..k : trace[i].op = "close"})

\* C17: under every interleaving of Write and Close calls, at most one handle
\* is open after every system call, and w.file is nil exactly if none is; no
\* handle is open when the live file is renamed or a file is opened or created;
\* and the physical write is made with a handle open on the file at the path.
SingleHandle ==
    /\ \A k \in 0..Len(trace) : OpenHandles(k) \in {0, 1}
    /\ OpenHandles(Len(trace)) = (IF file # Nil THEN 1 ELSE 0)
    /\ \A k \in 1..Len(trace) :
           /\ trace[k].op \in {"rename", "open", "create"} => OpenHandles(k - 1) = 0
           /\ trace[k].op = "write" => OpenHandles(k - 1) = 1
    /\ \A p \in Procs : pc[p] = "append" => HandleOn(World) = "live"

\* a Write on an open handle that rotated the file, called while another
\* caller's Write was in progress
SingleHandleWitness ==
    /\ Returned("Write") /\ pre.file # Nil /\ file # Nil
    /\ Happened(trace, "close", TRUE) /\ Happened(trace, "rename", TRUE)
    /\ Happened(trace, "create", TRUE) /\ Happened(trace, "write", TRUE)
    /\ \E p \in Procs : ret.proc # p /\ pc[p] = "idle" /\ buf[p] # <<>>

\* C18: once a Close of a writer that had written has returned, and until
\* another call returns, the writer has no handle: no later call opens one.
ClosedIsFinal ==
    (ret.op = "Close" /\ written # <<>>) => file = Nil

\* C19: every call of Write eventually returns.
EveryWriteReturns ==
    \A p \in Procs : (pc[p] = "lockWrite") ~> (pc[p] = "idle")

\* with compress set every successful rename is followed at once by the start
\* of one goroutine for the new name, and no goroutine is started otherwise
CompressionScheduled ==
    /\ \A i \in 1..Len(trace) :
           (trace[i].op = "rename" /\ trace[i].ok /\ compress) =>
               (i < Len(trace) /\ trace[i + 1] = Event("go", trace[i].name, TRUE))
    /\ \A i \in 1..Len(trace) :
           trace[i].op = "go" =>
               (compress /\ i > 1 /\ trace[i - 1] = Event("rename", trace[i].name, TRUE))

\* whatever goroutines are running, a call can take its next step, and a
\* caller can take the mutex when it is free
NeverAwaited ==
    \A p \in Procs :
        /\ pc[p] = "write" => ENABLED WriteOpen(p)
        /\ pc[p] = "append" => ENABLED WriteAppend(p)
        /\ pc[p] = "close" => ENABLED Close(p)
        /\ (pc[p] \in {"lockWrite", "lockClose"} /\ mu = 0) => ENABLED Lock(p)

\* a step of a compression goroutine changes nothing of the writer, the files
\* or the calls
TaskStepDetached ==
    (\E name \in tasks : compressFile(name)) =>
        UNCHANGED <<file, size, mu, disk, dirExists, pc, buf, ret>>

\* C20: with compress set, each rotation that renames the live file starts
\* exactly one goroutine for that backup; no step of Write or Close and no
\* acquisition of the mutex waits for a goroutine; and a goroutine's step
\* changes neither the handle, size, the mutex, the files nor any call's result.
FireAndForget ==
    /\ [](CompressionScheduled /\ NeverAwaited)
    /\ [][TaskStepDetached]_vars

\* a Write that rotated the file has returned and released the mutex while the
\* goroutine it started is still running
FireAndForgetWitness ==
    /\ Returned("Write") /\ ret.err = NoErr /\ compress
    /\ Renamed(trace) # <<>> /\ Renamed(trace)[1] \in tasks
====
